---- MODULE Spec2Model ----
(***************************************************************************)
(* A model of src/tracker.py: the MisinformationTracker object (its post   *)
(* batch `data` and its graph `network`) and its operations collect_posts, *)
(* analyze_network, identify_narratives, analyze_engagement and            *)
(* generate_report.                                                        *)
(*                                                                         *)
(* Text is a sequence of one-character strings, so that formatting         *)
(* (f-strings), lower-casing and the \w+ tokenizer are computed.  A float  *)
(* is the exact fraction [num, den] the code divides.  The networkx graph  *)
(* is its insertion-ordered node list and its set of edges, an edge being  *)
(* the set of its end points ({u} is a self-loop, which nx.Graph keeps).   *)
(***************************************************************************)
EXTENDS Integers, Sequences, FiniteSets, TLC

VARIABLES data, network, last, source, calls, analyses, streak

vars == <<data, network, last, source, calls, analyses, streak>>

---------------------------------------------------------------------------
(* Bounds of the model *)

\* collect_posts is called with limit in 0..MaxLimit
MaxLimit == 5

\* a batch assigned to tracker.data has at most MaxBatch posts
MaxBatch == 2

\* the one batch given to a tracker that is used once has at most
\* MaxFreshBatch posts
MaxFreshBatch == 3

\* number of method calls made on one tracker
MaxCalls == 4

\* the ghost counters analyses and streak stop counting here
MaxCount == 2

---------------------------------------------------------------------------
(* Program constants *)

\* most_common(20), tracker.py line 59
TopWords == 20

\* most_common(10), tracker.py line 62
TopHashtags == 10

\* [:10], tracker.py line 50
TopCentral == 10

\* 'likes': i*10, tracker.py line 28
LikesPerIndex == 10

\* 'shares': i*2, tracker.py line 28
SharesPerIndex == 2

---------------------------------------------------------------------------
(* Small helpers on sequences and fractions *)

Range(s) == {s[i] : i \in 1..Len(s)}

Min(a, b) == IF a <= b THEN a ELSE b

Prefix(s, k) == SubSeq(s, 1, Min(k, Len(s)))

RECURSIVE SumSeq(_)
SumSeq(s) == IF s = <<>> THEN 0 ELSE Head(s) + SumSeq(Tail(s))

RECURSIVE Flatten(_)
Flatten(ss) == IF ss = <<>> THEN <<>> ELSE Head(ss) \o Flatten(Tail(ss))

\* the exact value of a Python true division a / b
Frac(a, b) == [num |-> a, den |-> b]

---------------------------------------------------------------------------
(* Text *)

Lowers == <<"a", "b", "c", "d", "e", "f", "g", "h", "i", "j", "k", "l", "m",
            "n", "o", "p", "q", "r", "s", "t", "u", "v", "w", "x", "y", "z">>

Uppers == <<"A", "B", "C", "D", "E", "F", "G", "H", "I", "J", "K", "L", "M",
            "N", "O", "P", "Q", "R", "S", "T", "U", "V", "W", "X", "Y", "Z">>

DigitsAndUnderscore == {"0", "1", "2", "3", "4", "5", "6", "7", "8", "9", "_"}

\* str.lower() on one character
LowerChar(c) ==
    IF \E i \in 1..Len(Uppers) : Uppers[i] = c
    THEN Lowers[CHOOSE i \in 1..Len(Uppers) : Uppers[i] = c]
    ELSE c

\* str.lower()
Lower(s) == [i \in 1..Len(s) |-> LowerChar(s[i])]

\* the character class \w
IsWordChar(c) == c \in Range(Lowers) \cup Range(Uppers) \cup DigitsAndUnderscore

\* ' '.join(parts)
RECURSIVE JoinSpace(_)
JoinSpace(parts) ==
    IF parts = <<>> THEN <<>>
    ELSE IF Len(parts) = 1 THEN Head(parts)
    ELSE Head(parts) \o <<" ">> \o JoinSpace(Tail(parts))

Abs(n) == IF n < 0 THEN 0 - n ELSE n

\* the elements of a finite set of integers in increasing order
Ascending(S) ==
    [k \in 1..Cardinality(S) |-> CHOOSE i \in S : Cardinality({j \in S : j <= i}) = k]

\* re.findall(r'\w+', s): the maximal runs of word characters, left to right.
\* A text without a separator is one word (or none); otherwise the words are
\* those left of a separator followed by those right of it.  The separator
\* nearest the middle is taken, which keeps the evaluation shallow.
RECURSIVE FindWords(_)
FindWords(s) ==
    LET seps == {i \in 1..Len(s) : ~IsWordChar(s[i])}
    IN  IF seps = {} THEN (IF s = <<>> THEN <<>> ELSE <<s>>)
        ELSE LET p == CHOOSE i \in seps :
                         \A j \in seps : Abs(2 * i - Len(s)) <= Abs(2 * j - Len(s))
             IN  FindWords(SubSeq(s, 1, p - 1)) \o FindWords(SubSeq(s, p + 1, Len(s)))

---------------------------------------------------------------------------
(* Posts *)

\* datetime.now().isoformat(): no operation reads it; one abstract reading
Now == "now"

SampleTag == <<"#", "s", "a", "m", "p", "l", "e">>

ContentPrefix == <<"S", "a", "m", "p", "l", "e", " ", "p", "o", "s", "t", " ",
                   "c", "o", "n", "t", "a", "i", "n", "i", "n", "g", " ">>

\* the dict built for index i by the comprehension of collect_posts
SyntheticPostOneBased(keywords, platform, i) ==
    [timestamp  |-> Now,
     platform   |-> platform,
     content    |-> ContentPrefix \o keywords,
     user       |-> "user_" \o ToString(i),
     engagement |-> [likes |-> (i + 1) * LikesPerIndex, shares |-> (i + 1) * SharesPerIndex],
     links      |-> <<"http://example" \o ToString(i) \o ".com">>,
     hashtags   |-> << <<"#">> \o keywords, SampleTag >>]

SyntheticPost(keywords, platform, i) ==
    [timestamp  |-> Now,
     platform   |-> platform,
     content    |-> ContentPrefix \o keywords,
     user       |-> "user_" \o ToString(i),
     engagement |-> [likes |-> i * LikesPerIndex, shares |-> i * SharesPerIndex],
     links      |-> <<"http://example" \o ToString(i) \o ".com">>,
     hashtags   |-> << <<"#">> \o keywords, SampleTag >>]

\* [ ... for i in range(limit)]
SyntheticBatch(keywords, platform, limit) ==
    [k \in 1..limit |-> SyntheticPost(keywords, platform, k - 1)]

(* Inputs of collect_posts *)

KwElection == <<"e", "l", "e", "c", "t", "i", "o", "n", "2", "0", "2", "4">>

\* eighteen one-letter words: with "sample", "post" and "containing" the
\* content then holds more distinct words than most_common(20) lists
KwMany == <<"a", " ", "b", " ", "c", " ", "d", " ", "e", " ", "f", " ", "g", " ",
            "h", " ", "i", " ", "j", " ", "k", " ", "l", " ", "m", " ", "n", " ",
            "o", " ", "q", " ", "r", " ", "u">>

Keywords == {KwElection, KwMany}

Platforms == {"twitter"}

Limits == 0..MaxLimit

(* Batches a caller stores in tracker.data itself: posts that are not the   *)
(* placeholder's.  Two different posts of one author that share a tag, a    *)
(* post of another author sharing a tag with only one of them, and more     *)
(* distinct tags than most_common(10) lists.                                *)

HandPost(user, likes, content, tags) ==
    [timestamp  |-> Now,
     platform   |-> "twitter",
     content    |-> content,
     user       |-> user,
     engagement |-> [likes |-> likes, shares |-> 0],
     links      |-> <<>>,
     hashtags   |-> tags]

TagX == <<"#", "x">>

TagY == <<"#", "y">>

PostA1 == HandPost("alice", 1, <<"H", "i", " ", "x", " ", "x">>, <<TagX, TagY>>)

PostA2 == HandPost("alice", 2, <<"h", "i">>, <<TagX>>)

PostB == HandPost("bob", 3, <<"Y", "_", "1", " ", "y", "_", "1", "!">>,
                  <<TagY>> \o [i \in 1..TopHashtags |-> <<"#", "t", ToString(i)>>])

Pool == {PostA1, PostA2, PostB}

RECURSIVE SeqsUpTo(_, _)
SeqsUpTo(S, n) ==
    IF n = 0 THEN {<<>>}
    ELSE LET shorter == SeqsUpTo(S, n - 1)
         IN  shorter \cup {Append(s, x) : s \in {t \in shorter : Len(t) = n - 1}, x \in S}

Batches == SeqsUpTo(Pool, MaxBatch)

FreshBatches == SeqsUpTo(Pool, MaxFreshBatch)

---------------------------------------------------------------------------
(* The graph: nx.Graph *)

EmptyGraph == [nodes |-> <<>>, edges |-> {}]

\* the distinct elements of s in the order they are first seen
Distinct(s) ==
    LET firsts == Ascending({i \in 1..Len(s) : \A j \in 1..(i - 1) : s[j] # s[i]})
    IN  [k \in 1..Len(firsts) |-> s[firsts[k]]]

\* a buggy add_node that records the node again when it is already there
AddNodeAgain(G, u) == [G EXCEPT !.nodes = Append(G.nodes, u)]

\* G.add_node(u): nothing changes when u is already a node
AddNode(G, u) ==
    IF u \in Range(G.nodes) THEN G ELSE [G EXCEPT !.nodes = Append(G.nodes, u)]

\* G.add_edge(u, v): adds u, then v, when absent; the same pair twice is one
\* edge; u = v is a self-loop
AddEdge(G, u, v) ==
    LET H == AddNode(AddNode(G, u), v)
    IN  [H EXCEPT !.edges = H.edges \cup {{u, v}}]

\* post != other_post: dicts compare by value, not by identity
PostsDiffer(p, q) == p # q

\* a buggy test that is true of every pair
CommonTagsAlways(p, q) == TRUE

\* bool(set(post['hashtags']).intersection(other_post['hashtags']))
CommonTags(p, q) == Range(p.hashtags) \cap Range(q.hashtags) # {}

(* The two loops.  H is the graph after one iteration; comparing it with G  *)
(* has the iteration evaluated before the next one begins, and both         *)
(* branches go on with the same graph.                                      *)

\* for other_post in self.data: ... , from position j on
RECURSIVE InnerLoop(_, _, _, _)
InnerLoop(G, d, i, j) ==
    IF j > Len(d) THEN G
    ELSE LET H == IF PostsDiffer(d[i], d[j]) /\ CommonTags(d[i], d[j])
                  THEN AddEdge(G, d[i].user, d[j].user)
                  ELSE G
         IN  IF H = G THEN InnerLoop(G, d, i, j + 1) ELSE InnerLoop(H, d, i, j + 1)

\* for post in self.data: ... , from position i on
RECURSIVE OuterLoop(_, _, _)
OuterLoop(G, d, i) ==
    IF i > Len(d) THEN G
    ELSE LET H == InnerLoop(AddNode(G, d[i].user), d, i, 1)
         IN  IF H = G THEN OuterLoop(G, d, i + 1) ELSE OuterLoop(H, d, i + 1)

\* the loop of analyze_network run on the graph the tracker holds
BuildGraph(G, d) == OuterLoop(G, d, 1)

---------------------------------------------------------------------------
(* Graph metrics: networkx *)

NodeSet(G) == Range(G.nodes)

\* G.degree(u): a self-loop counts twice
Degree(G, u) ==
    Cardinality({e \in G.edges : u \in e /\ e # {u}})
    + (IF {u} \in G.edges THEN 2 ELSE 0)

\* nx.degree_centrality(G), in node order: 1 for each node when there is at
\* most one node, else degree / (n - 1)
DegreeCentrality(G) ==
    LET n == Len(G.nodes)
    IN  [i \in 1..n |->
            <<G.nodes[i],
              IF n <= 1 THEN Frac(1, 1) ELSE Frac(Degree(G, G.nodes[i]), n - 1)>>]

\* nx.density(G): 0 when there is no edge or at most one node, else
\* 2m / (n (n - 1))
Density(G) ==
    LET n == Len(G.nodes)
        m == Cardinality(G.edges)
    IN  IF m = 0 \/ n <= 1 THEN Frac(0, 1) ELSE Frac(2 * m, n * (n - 1))

\* a/b > c/d for positive denominators
FracGt(f, g) == f.num * g.den > g.num * f.den

\* sorted(items, key=lambda x: x[1], reverse=True) on (node, fraction) items:
\* descending, equal keys keep their order.  The item at position i goes to
\* the place after the items of greater key and the earlier items of equal key.
SortByCentralityDesc(s) ==
    LET Place(i) ==
            1 + Cardinality({j \in 1..Len(s) :
                    \/ FracGt(s[j][2], s[i][2])
                    \/ j < i /\ ~FracGt(s[i][2], s[j][2])})
    IN  [k \in 1..Len(s) |-> s[CHOOSE i \in 1..Len(s) : Place(i) = k]]

(* nx.community.greedy_modularity_communities(G), Clauset-Newman-Moore.    *)
(* Communities start as single nodes.  A pair of communities joined by an  *)
(* edge can merge; the gain of a merge is w/m - k1 k2/(2 m^2), here times  *)
(* 2 m^2; the best merge is made while its gain is not negative, gains     *)
(* that tie going to the pair found first in node order.  A graph with no  *)
(* edge is answered at once: one community per node.                       *)

Index(G, u) == CHOOSE i \in 1..Len(G.nodes) : G.nodes[i] = u

Label(G, C) == CHOOSE i \in {Index(G, u) : u \in C} :
                  \A j \in {Index(G, u) : u \in C} : j <= i

DegreeSum(G, C) ==
    2 * Cardinality({e \in G.edges : e \subseteq C})
    + Cardinality({e \in G.edges : e \cap C # {} /\ ~(e \subseteq C)})

EdgesBetween(G, C, D) ==
    Cardinality({e \in G.edges : e \cap C # {} /\ e \cap D # {}})

Gain(G, C, D) ==
    2 * Cardinality(G.edges) * EdgesBetween(G, C, D) - DegreeSum(G, C) * DegreeSum(G, D)

RECURSIVE Merge(_, _)
Merge(G, P) ==
    LET pairs == {pr \in P \X P :
                     /\ Label(G, pr[1]) < Label(G, pr[2])
                     /\ EdgesBetween(G, pr[1], pr[2]) > 0}
        Before(p, q) ==
            \/ Gain(G, p[1], p[2]) > Gain(G, q[1], q[2])
            \/ /\ Gain(G, p[1], p[2]) = Gain(G, q[1], q[2])
               /\ \/ Label(G, p[1]) < Label(G, q[1])
                  \/ Label(G, p[1]) = Label(G, q[1]) /\ Label(G, p[2]) <= Label(G, q[2])
    IN  IF Cardinality(P) <= 1 \/ pairs = {} THEN P
        ELSE LET best == CHOOSE p \in pairs : \A q \in pairs : Before(p, q)
             IN  IF Gain(G, best[1], best[2]) < 0 THEN P
                 ELSE Merge(G, (P \ {best[1], best[2]}) \cup {best[1] \cup best[2]})

GreedyModularityCommunities(G) ==
    IF G.edges = {} THEN {{u} : u \in NodeSet(G)}
    ELSE Merge(G, {{u} : u \in NodeSet(G)})

---------------------------------------------------------------------------
(* Counter(...).most_common(n) *)

Occurrences(s, x) == Cardinality({i \in 1..Len(s) : s[i] = x})

\* Counter(s).items(): the distinct elements in first-seen order, each with
\* the number of its occurrences
Counter(s) ==
    LET keys == Distinct(s)
    IN  [i \in 1..Len(keys) |-> <<keys[i], Occurrences(s, keys[i])>>]

\* descending by count, equal counts keep first-seen order
SortByCountDesc(s) ==
    LET Place(i) ==
            1 + Cardinality({j \in 1..Len(s) :
                    \/ s[j][2] > s[i][2]
                    \/ j < i /\ s[j][2] = s[i][2]})
    IN  [k \in 1..Len(s) |-> s[CHOOSE i \in 1..Len(s) : Place(i) = k]]

\* a buggy most_common that cuts the list without sorting it
MostCommonUnsorted(s, n) == Prefix(Counter(s), n)

MostCommon(s, n) == Prefix(SortByCountDesc(Counter(s)), n)

---------------------------------------------------------------------------
(* What the methods compute *)

\* the dict analyze_network returns, for the graph it has just extended
NetworkAnalysis(G) ==
    [central_nodes   |-> Prefix(SortByCentralityDesc(DegreeCentrality(G)), TopCentral),
     community_count |-> Cardinality(GreedyModularityCommunities(G)),
     density         |-> Density(G)]

\* words of identify_narratives
Words(d) == FindWords(Lower(JoinSpace([i \in 1..Len(d) |-> d[i].content])))

\* hashtags of identify_narratives
Hashtags(d) == Flatten([i \in 1..Len(d) |-> d[i].hashtags])

\* the dict identify_narratives returns
Narratives(d) ==
    [common_words    |-> MostCommon(Words(d), TopWords),
     common_hashtags |-> MostCommon(Hashtags(d), TopHashtags)]

\* a buggy analyze_engagement that never fails
EngagementNeverRaises(d) == FALSE

\* ... / len(self.data) raises ZeroDivisionError
EngagementRaises(d) == Len(d) = 0

\* the dict analyze_engagement returns
Engagement(d) ==
    [total_likes    |-> SumSeq([i \in 1..Len(d) |-> d[i].engagement.likes]),
     total_shares   |-> SumSeq([i \in 1..Len(d) |-> d[i].engagement.shares]),
     avg_engagement |-> Frac(SumSeq([i \in 1..Len(d) |->
                                d[i].engagement.likes + d[i].engagement.shares]),
                             Len(d))]

\* the dict generate_report returns for the graph G its analyze_network left
Report(G, d) ==
    [timestamp           |-> Now,
     data_points         |-> Len(d),
     network_analysis    |-> NetworkAnalysis(G),
     narrative_analysis  |-> Narratives(d),
     engagement_analysis |-> Engagement(d)]

Returned(op, value) == [op |-> op, raised |-> "none", value |-> value]

Raised(op, error) == [op |-> op, raised |-> error, value |-> "None"]

Bump(n) == Min(n + 1, MaxCount)

---------------------------------------------------------------------------
(* The tracker *)

\* MisinformationTracker()
Init ==
    /\ data = <<>>
    /\ network = EmptyGraph
    /\ last = Returned("__init__", "None")
    /\ source = [kind |-> "__init__", limit |-> 0, replaced |-> 0]
    /\ calls = 0
    /\ analyses = 0
    /\ streak = 0

\* tracker.collect_posts(keywords, platform, limit)
CollectPosts ==
    \E keywords \in Keywords, platform \in Platforms, limit \in Limits :
        /\ calls < MaxCalls
        /\ data' = SyntheticBatch(keywords, platform, limit)
        /\ last' = Returned("collect_posts", "None")
        /\ source' = [kind |-> "collect_posts", limit |-> limit, replaced |-> Len(data)]
        /\ calls' = calls + 1
        /\ streak' = 0
        /\ UNCHANGED <<network, analyses>>

\* tracker.data = batch: posts from elsewhere than the placeholder
Assign(batch) ==
    /\ calls < MaxCalls
    /\ data' = batch
    /\ last' = Returned("data", "None")
    /\ source' = [kind |-> "assigned", limit |-> Len(batch), replaced |-> Len(data)]
    /\ calls' = calls + 1
    /\ streak' = 0
    /\ UNCHANGED <<network, analyses>>

SetData == \E batch \in Batches : Assign(batch)

\* tracker.analyze_network()
AnalyzeNetwork ==
    /\ calls < MaxCalls
    /\ network' = BuildGraph(network, data)
    /\ last' = Returned("analyze_network", NetworkAnalysis(network'))
    /\ calls' = calls + 1
    /\ analyses' = Bump(analyses)
    /\ streak' = Bump(streak)
    /\ UNCHANGED <<data, source>>

\* tracker.identify_narratives()
IdentifyNarratives ==
    /\ calls < MaxCalls
    /\ last' = Returned("identify_narratives", Narratives(data))
    /\ calls' = calls + 1
    /\ streak' = 0
    /\ UNCHANGED <<data, network, source, analyses>>

\* tracker.analyze_engagement()
AnalyzeEngagement ==
    /\ calls < MaxCalls
    /\ last' = IF EngagementRaises(data)
               THEN Raised("analyze_engagement", "ZeroDivisionError")
               ELSE Returned("analyze_engagement", Engagement(data))
    /\ calls' = calls + 1
    /\ streak' = 0
    /\ UNCHANGED <<data, network, source, analyses>>

\* tracker.generate_report(): analyze_network, identify_narratives and
\* analyze_engagement in turn; an error of the last leaves the graph as
\* analyze_network made it
GenerateReport ==
    /\ calls < MaxCalls
    /\ network' = BuildGraph(network, data)
    /\ last' = IF EngagementRaises(data)
               THEN Raised("generate_report", "ZeroDivisionError")
               ELSE Returned("generate_report", Report(network', data))
    /\ calls' = calls + 1
    /\ analyses' = Bump(analyses)
    /\ streak' = 0
    /\ UNCHANGED <<data, source>>

Next ==
    \/ CollectPosts
    \/ SetData
    \/ AnalyzeNetwork
    \/ IdentifyNarratives
    \/ AnalyzeEngagement
    \/ GenerateReport

Spec == Init /\ [][Next]_vars

(* A freshly constructed tracker used once: it is given one batch, of up to *)
(* MaxFreshBatch posts, and then one method is called.                      *)

SetFreshData == \E batch \in FreshBatches : Assign(batch)

NextFresh ==
    \/ calls = 0 /\ CollectPosts
    \/ calls = 0 /\ SetFreshData
    \/ calls = 1 /\ AnalyzeNetwork
    \/ calls = 1 /\ IdentifyNarratives
    \/ calls = 1 /\ AnalyzeEngagement
    \/ calls = 1 /\ GenerateReport

SpecFresh == Init /\ [][NextFresh]_vars

---------------------------------------------------------------------------
(* Vocabulary of the properties *)

Positions(d) == 1..Len(d)

Authors(d) == {d[i].user : i \in Positions(d)}

TagsOf(p) == {p.hashtags[k] : k \in 1..Len(p.hashtags)}

\* the posts at positions i and j have a hashtag in common
Share(d, i, j) == TagsOf(d[i]) \cap TagsOf(d[j]) # {}

AllShare(d) == \A i, j \in Positions(d) : i # j => Share(d, i, j)

NoShare(d) == \A i, j \in Positions(d) : i # j => ~Share(d, i, j)

\* analyze_network has just returned
AfterAnalysis == last.op = "analyze_network"

\* analyze_network has just returned and the graph was empty when it began
FirstAnalysis == AfterAnalysis /\ analyses = 1

InUnit(f) == f.den > 0 /\ 0 <= f.num /\ f.num <= f.den

IsOne(f) == f.den > 0 /\ f.num = f.den

IsZero(f) == f.den > 0 /\ f.num = 0

RECURSIVE SumBelow(_, _)
SumBelow(n, c) == IF n = 0 THEN 0 ELSE c * (n - 1) + SumBelow(n - 1, c)

RECURSIVE SumCounts(_)
SumCounts(bins) == IF bins = <<>> THEN 0 ELSE Head(bins)[2] + SumCounts(Tail(bins))

Descending(bins) == \A i \in 1..(Len(bins) - 1) : bins[i][2] >= bins[i + 1][2]

\* every listed count is the number of occurrences of its item in items
CountsExact(bins, items) ==
    \A i \in 1..Len(bins) :
        bins[i][2] = Cardinality({k \in 1..Len(items) : items[k] = bins[i][1]})

DistinctCount(items) == Cardinality({items[k] : k \in 1..Len(items)})

SyntheticUsers(n) == {"user_" \o ToString(i) : i \in 0..(n - 1)}

\* the graph an inverted index gives: every author is a node, and two
\* authors are joined when some hashtag is used by both
TagAuthors(d, t) == {d[i].user : i \in {k \in Positions(d) : t \in TagsOf(d[k])}}

InvertedIndexEdges(d) ==
    {{u, v} : u, v \in Authors(d)} \cap
    {e \in SUBSET Authors(d) :
        /\ Cardinality(e) = 2
        /\ \E i \in Positions(d) : \E t \in TagsOf(d[i]) : e \subseteq TagAuthors(d, t)}

---------------------------------------------------------------------------
(* The properties *)

\* C1: after each analyze_network the nodes of the graph are exactly the
\* authors of the current batch and every edge joins the authors of two
\* posts of the current batch that share a hashtag: nothing of an earlier
\* batch remains.
C1_FreshPerRun ==
    AfterAnalysis =>
        /\ NodeSet(network) = Authors(data)
        /\ \A e \in network.edges :
              \E i, j \in Positions(data) :
                  i # j /\ e = {data[i].user, data[j].user} /\ Share(data, i, j)

\* C2: on a fresh tracker, after analyze_network there is an edge between u
\* and v exactly when two different positions of the batch hold a post of u
\* and a post of v with a common hashtag, and every author is a node.
C2_EdgeIffTwoPositions ==
    FirstAnalysis =>
        /\ Authors(data) \subseteq NodeSet(network)
        /\ \A u, v \in NodeSet(network) \cup Authors(data) :
              ({u, v} \in network.edges) <=>
                  \E i, j \in Positions(data) :
                      /\ i # j
                      /\ data[i].user = u
                      /\ data[j].user = v
                      /\ Share(data, i, j)

\* C3: for a non-empty batch, after analyze_network every degree centrality
\* and the returned density lie in [0, 1].
C3_UnitInterval ==
    (AfterAnalysis /\ data # <<>>) =>
        /\ \A k \in 1..Len(network.nodes) : InUnit(DegreeCentrality(network)[k][2])
        /\ \A k \in 1..Len(last.value.central_nodes) :
              InUnit(last.value.central_nodes[k][2])
        /\ InUnit(last.value.density)

\* C4: for a batch of at least two posts in which every post shares a hashtag
\* with every other, after analyze_network a graph of more than one node has
\* every pair of distinct nodes joined and density 1; the batch of
\* collect_posts with limit N > 1 gives the complete graph on
\* user_0 .. user_{N-1}.
C4_FullyConnected ==
    (AfterAnalysis /\ Len(data) >= 2 /\ AllShare(data) /\ Len(network.nodes) > 1) =>
        /\ \A u, v \in NodeSet(network) : u # v => {u, v} \in network.edges
        /\ IsOne(last.value.density)
        /\ (source.kind = "collect_posts") =>
              /\ NodeSet(network) = SyntheticUsers(source.limit)
              /\ network.edges =
                    {e \in SUBSET SyntheticUsers(source.limit) : Cardinality(e) = 2}

\* C5: for a batch in which no two posts share a hashtag, after
\* analyze_network on a fresh tracker the graph has no edge, the density is 0
\* and community_count is the number of nodes.
C5_Edgeless ==
    (FirstAnalysis /\ NoShare(data)) =>
        /\ network.edges = {}
        /\ NodeSet(network) = Authors(data)
        /\ IsZero(last.value.density)
        /\ last.value.community_count = Cardinality(NodeSet(network))

\* C5's case: two posts of two authors, both with hashtags, none in common
C5_Witness ==
    /\ FirstAnalysis
    /\ NoShare(data)
    /\ Len(data) = 2
    /\ Cardinality(Authors(data)) = 2
    /\ \A i \in Positions(data) : data[i].hashtags # <<>>
    /\ last.value.community_count = 2

\* C6: after collect_posts with limit N >= 1, whatever was collected before,
\* analyze_engagement returns total_likes = sum of 10 i and total_shares = sum
\* of 2 i over i in [0, N), and avg_engagement = (total_likes + total_shares) / N;
\* for N = 5 these are 100, 20 and 24.
C6_Engagement ==
    (last.op = "analyze_engagement" /\ source.kind = "collect_posts" /\ source.limit >= 1) =>
        /\ last.raised = "none"
        /\ last.value.total_likes = SumBelow(source.limit, 10)
        /\ last.value.total_shares = SumBelow(source.limit, 2)
        /\ last.value.avg_engagement.den # 0
        /\ last.value.avg_engagement.num * source.limit =
              (last.value.total_likes + last.value.total_shares)
                  * last.value.avg_engagement.den
        /\ (source.limit = 5) =>
              /\ last.value.total_likes = 100
              /\ last.value.total_shares = 20
              /\ last.value.avg_engagement.num = 24 * last.value.avg_engagement.den

\* C6's case: five posts collected over an earlier, non-empty batch
C6_Witness ==
    /\ last.op = "analyze_engagement"
    /\ source.kind = "collect_posts"
    /\ source.limit = 5
    /\ source.replaced > 0
    /\ last.raised = "none"
    /\ last.value.total_likes = 100

\* C7: with an empty batch analyze_engagement and generate_report raise
\* ZeroDivisionError, return nothing, and leave the batch and the graph as
\* they were before the call.
C7_EmptyBatchFails ==
    [][(/\ data = <<>>
        /\ calls' = calls + 1
        /\ last'.op \in {"analyze_engagement", "generate_report"})
       => (/\ last'.raised = "ZeroDivisionError"
           /\ last'.value = "None"
           /\ data' = data
           /\ network' = network)]_vars

\* C7's case: generate_report has failed on the batch of collect_posts with
\* limit 0, on a tracker whose graph was built from an earlier batch
C7_Witness ==
    /\ last.op = "generate_report"
    /\ last.raised = "ZeroDivisionError"
    /\ source.kind = "collect_posts"
    /\ source.limit = 0
    /\ network.edges # {}

\* C8: the graph of the pairwise loop, on a fresh tracker, is the graph of
\* the inverted index: the same nodes and the same edges.
C8_InvertedIndex ==
    FirstAnalysis =>
        /\ NodeSet(network) = Authors(data)
        /\ network.edges = InvertedIndexEdges(data)

\* C9, as claimed: common_hashtags and common_words are sorted by descending
\* count, each count is the number of occurrences of its item, and the listed
\* counts sum to the number of hashtag occurrences (of tokens).
C9_SumsToTotal ==
    (last.op = "identify_narratives") =>
        /\ Descending(last.value.common_hashtags)
        /\ CountsExact(last.value.common_hashtags, Hashtags(data))
        /\ SumCounts(last.value.common_hashtags) = Len(Hashtags(data))
        /\ Descending(last.value.common_words)
        /\ CountsExact(last.value.common_words, Words(data))
        /\ SumCounts(last.value.common_words) = Len(Words(data))

\* C9, amended: the lists are sorted by descending count and each count is
\* the number of occurrences of its item; the listed counts sum to the total
\* when there are at most 10 distinct hashtags (20 distinct words), and
\* otherwise the list holds 10 (20) bins whose counts sum to less than the
\* total.
C9_TopCounts ==
    (last.op = "identify_narratives") =>
        /\ Descending(last.value.common_hashtags)
        /\ CountsExact(last.value.common_hashtags, Hashtags(data))
        /\ IF DistinctCount(Hashtags(data)) <= 10
           THEN SumCounts(last.value.common_hashtags) = Len(Hashtags(data))
           ELSE /\ Len(last.value.common_hashtags) = 10
                /\ SumCounts(last.value.common_hashtags) < Len(Hashtags(data))
        /\ Descending(last.value.common_words)
        /\ CountsExact(last.value.common_words, Words(data))
        /\ IF DistinctCount(Words(data)) <= 20
           THEN SumCounts(last.value.common_words) = Len(Words(data))
           ELSE /\ Len(last.value.common_words) = 20
                /\ SumCounts(last.value.common_words) < Len(Words(data))

\* C9's case: more than 10 distinct hashtags, of unequal counts, the most
\* frequent not being the first in the batch
C9_Witness ==
    /\ last.op = "identify_narratives"
    /\ DistinctCount(Hashtags(data)) > 10
    /\ Len(last.value.common_hashtags) = 10
    /\ last.value.common_hashtags[1][2] > last.value.common_hashtags[2][2]
    /\ last.value.common_hashtags[1][1] # Hashtags(data)[1]

\* C10: analyze_network never changes the batch, and called right after
\* analyze_network, with no call in between, it leaves the node set and the
\* edge set as they were and returns the same density, community_count and
\* central_nodes.
C10_Idempotent ==
    [][(calls' = calls + 1 /\ last'.op = "analyze_network")
       => (/\ data' = data
           /\ (last.op = "analyze_network") =>
                 /\ NodeSet(network') = NodeSet(network)
                 /\ network'.edges = network.edges
                 /\ last'.value.density = last.value.density
                 /\ last'.value.community_count = last.value.community_count
                 /\ last'.value.central_nodes = last.value.central_nodes)]_vars

\* C10's case: two analyze_network calls in a row on a batch that gives edges
C10_Witness ==
    /\ streak = 2
    /\ last.op = "analyze_network"
    /\ Len(data) >= 2
    /\ network.edges # {}

====
